---- MODULE Spec2Model ----
(***************************************************************************)
(* jiracmdline.py: a one-shot command line client of a jira server.        *)
(*                                                                         *)
(* The model follows one invocation of the script: parse_cmdline (the      *)
(* config file, the connection options, the password, the checks on the    *)
(* modification options, the ticket list read from stdin), jira_connect,   *)
(* and the three branches of the main block (do_modify, the user search,   *)
(* the listing).  Every call on the jira connection and every print is     *)
(* appended to log, in the order the script makes them.  A call on the     *)
(* jira library either returns or raises (JIRAError); the script catches   *)
(* nothing, so a raise ends the run.                                       *)
(*                                                                         *)
(* An option the command line leaves out (None) and one given as the empty *)
(* string are both "": the script only ever tests them with `not`.         *)
(***************************************************************************)
EXTENDS Integers, Sequences, FiniteSets, TLC

\* Bounds of the model.
MaxPositional == 2
MaxStdin == 2
MaxHits == 2
MaxComments == 1

\* The values the inputs are drawn from.
TicketIds == {"Y-1", "Y-2"}
StdinLines == {"X-1\n", "X-2\n", "X-3"}
HitKeys == {"K-1", "K-2", "K-3"}
UserNames == {"bob", "bobby"}
CliValues == {"", "A"}
CfgValues == {"", "B"}
TypedValues == {"", "pw"}

SeqsUpTo(S, n) == UNION {[1..k -> S] : k \in 0..n}

\* search_issues returns distinct issues.
HitLists == {h \in SeqsUpTo(HitKeys, MaxHits) :
               \A x, y \in 1..Len(h) : h[x] = h[y] => x = y}

Ev(op, id, arg) == [op |-> op, id |-> id, arg |-> arg]

\* The texts the script exits with.
MissingOption(k) ==
    CASE k = "jiraserver" -> "Missing required option 'jiraserver'"
      [] k = "jirauser" -> "Missing required option 'jirauser'"
      [] OTHER -> "Missing required option 'jiraproject'"
MissingPassword == "Missing jira password"
GiveRequiresTarget == "Givetouser is required with 'Give' option"
TicketListRequired == "Ticket list required when using Modification Options"
InvalidUser == "Invalid user"
\* What the libraries raise.
NoSectionError == "ConfigParser.NoSectionError"
JIRAError == "jira.JIRAError"

\* The two query templates of do_search.
MineTemplate == "assignee=currentUser() and project={project} and status in (\"open\",\"in progress\")"
AllTemplate == "project={project} and status in (\"open\")"

VARIABLES
    argv,        \* the options as argparse returned them (never changed)
    env,         \* the config file, whether stdin is a terminal, the lines on
                 \* stdin, what is typed at the password prompt
    stdin,       \* the lines of standard input not read yet
    args,        \* the module level args, as parse_cmdline updates it
    cfgoptions,  \* parse_cmdline's cfgoptions
    pc,          \* where the script is
    error,       \* the text of the SystemExit or the exception that ended the run
    log,         \* the calls on the jira connection and the prints, in order
    i,           \* the index of the loop over the tickets
    keys,        \* the listing: the ids to fetch
    issues,      \* the issues fetched: do_modify's issue, the listing's issues
    comments,    \* the jira server: the number of comments of each issue
    lookups      \* for each search_users call of is_valid_user that returned:
                 \* whether a user named args.givetouser was among the results

vars == <<argv, env, stdin, args, cfgoptions, pc, error, log, i, keys, issues, comments, lookups>>

NoOptions == [k \in {} |-> ""]

----------------------------------------------------------------------------
\* parse_cmdline

ConnectionKeys == <<"jiraserver", "jirauser", "jiraproject">>

\* A variant of UseDefaults in which the config file wins over the command line.
RECURSIVE UseDefaults_ConfigFirst(_, _, _)
UseDefaults_ConfigFirst(a, cfg, ks) ==
    IF ks = <<>> THEN [args |-> a, missing |-> ""]
    ELSE LET k == Head(ks) IN
         IF k \in DOMAIN cfg
           THEN UseDefaults_ConfigFirst([a EXCEPT ![k] = cfg[k]], cfg, Tail(ks))
           ELSE IF a[k] # "" THEN UseDefaults_ConfigFirst(a, cfg, Tail(ks))
           ELSE [args |-> a, missing |-> k]

\* for k in [...]: if not getattr(args, k): setattr(args, k, cfgoptions[k])
\* the KeyError of the first key the config file lacks ends the loop.
RECURSIVE UseDefaults(_, _, _)
UseDefaults(a, cfg, ks) ==
    IF ks = <<>> THEN [args |-> a, missing |-> ""]
    ELSE LET k == Head(ks) IN
         IF a[k] # "" THEN UseDefaults(a, cfg, Tail(ks))
         ELSE IF k \in DOMAIN cfg
              THEN UseDefaults([a EXCEPT ![k] = cfg[k]], cfg, Tail(ks))
              ELSE [args |-> a, missing |-> k]

\* The password: the command line, else the config file, else the prompt
\* when stdin is a terminal, else none.
GetPassword(pass, cfg, isatty, typed) ==
    IF pass # "" THEN [found |-> TRUE, value |-> pass]
    ELSE IF "jirapass" \in DOMAIN cfg THEN [found |-> TRUE, value |-> cfg["jirapass"]]
    ELSE IF isatty THEN [found |-> TRUE, value |-> typed]
    ELSE [found |-> FALSE, value |-> ""]

\* A variant of GiveWithoutTarget that tests it only when ticket ids are given.
GiveWithoutTarget_WithTickets(a) ==
    a.give /\ a.givetouser = "" /\ Len(a.ticketlist) > 0

\* if args.give and not args.givetouser
GiveWithoutTarget(a) == a.give /\ a.givetouser = ""

\* A variant of ReadTicketList that reads stdin only when no id is on the
\* command line.
ReadTicketList_OnlyIfEmpty(ticketlist, isatty, lines) ==
    IF isatty \/ ticketlist # <<>> THEN ticketlist ELSE lines

\* if not sys.stdin.isatty(): for elem in fileinput.input('-'): append
ReadTicketList(ticketlist, isatty, lines) ==
    IF isatty THEN ticketlist ELSE ticketlist \o lines

\* A variant of ModificationOptions that leaves take out.
ModificationOptions_NoTake(a) == a.give \/ a.resolve \/ a.comment # ""

\* if args.give or args.take or args.resolve or args.comment
ModificationOptions(a) == a.give \/ a.take \/ a.resolve \/ a.comment # ""

ReadConfigFile ==
    /\ pc = "read_cfg"
    /\ IF env.cfgfile = "nosection"
         THEN /\ pc' = "exit"
              /\ error' = NoSectionError
              /\ cfgoptions' = cfgoptions
         ELSE /\ pc' = "defaults"
              /\ error' = error
              /\ cfgoptions' = IF env.cfgfile = "ok" THEN env.items ELSE NoOptions
    /\ UNCHANGED <<argv, env, stdin, args, log, i, keys, issues, comments, lookups>>

ResolveOptions ==
    /\ pc = "defaults"
    /\ LET d == UseDefaults(args, cfgoptions, ConnectionKeys)
           p == GetPassword(d.args.jirapass, cfgoptions, env.isatty, env.typed)
       IN IF d.missing # ""
            THEN /\ args' = d.args
                 /\ pc' = "exit"
                 /\ error' = MissingOption(d.missing)
            ELSE IF ~p.found
            THEN /\ args' = d.args
                 /\ pc' = "exit"
                 /\ error' = MissingPassword
            ELSE /\ args' = [d.args EXCEPT !.jirapass = p.value]
                 /\ pc' = "validate"
                 /\ error' = error
    /\ UNCHANGED <<argv, env, stdin, cfgoptions, log, i, keys, issues, comments, lookups>>

ValidateArgs ==
    /\ pc = "validate"
    /\ IF GiveWithoutTarget(args)
         THEN /\ pc' = "exit"
              /\ error' = GiveRequiresTarget
              /\ UNCHANGED <<args, stdin>>
         ELSE LET tl == ReadTicketList(args.ticketlist, env.isatty, stdin) IN
              /\ args' = [args EXCEPT !.ticketlist = tl]
              /\ stdin' = IF env.isatty THEN stdin ELSE <<>>
              /\ IF ModificationOptions(args) /\ Len(tl) < 1
                   THEN /\ pc' = "exit"
                        /\ error' = TicketListRequired
                   ELSE /\ pc' = "connect"
                        /\ error' = error
    /\ UNCHANGED <<argv, env, cfgoptions, log, i, keys, issues, comments, lookups>>

----------------------------------------------------------------------------
\* the main block

\* A variant of DispatchModify that leaves comment out.
DispatchModify_NoComment(a) == a.resolve \/ a.take \/ a.give

\* if args.comment or args.resolve or args.take or args.give
DispatchModify(a) == a.comment # "" \/ a.resolve \/ a.take \/ a.give

\* The first statement of the branch the main block takes.
MainBranch(a) ==
    IF DispatchModify(a) THEN "m_fetch"
    ELSE IF a.usersearch # "" THEN "usersearch"
    ELSE IF Len(a.ticketlist) > 0 THEN "l_fetch"
    ELSE "search"

\* conn = jira_connect(), then the tests of the main block
JiraConnect ==
    /\ pc = "connect"
    /\ log' = Append(log, Ev("JIRA", args.jiraserver, args.jirauser))
    /\ \E ok \in BOOLEAN :
         IF ok
           THEN /\ pc' = MainBranch(args)
                /\ error' = error
                /\ keys' = IF MainBranch(args) = "l_fetch" THEN args.ticketlist ELSE keys
           ELSE /\ pc' = "exit"
                /\ error' = JIRAError
                /\ keys' = keys
    /\ i' = 1
    /\ UNCHANGED <<argv, env, stdin, args, cfgoptions, issues, comments, lookups>>

----------------------------------------------------------------------------
\* print_issue, add_comment, assign_issue, resolve_issue, is_valid_user

\* The conn.comment calls print_issue makes: one per comment with --cat.
CommentCalls(issue, cat) == IF cat THEN issue.ncomments ELSE 0

\* What print_issue does when `returned` of its conn.comment calls return:
\* all of them, and the issue is printed; fewer, and the next one raised.
PrintIssueEvents(issue, cat, returned) ==
    LET n == CommentCalls(issue, cat)
        made == IF returned < n THEN returned + 1 ELSE n
    IN [c \in 1..made |-> Ev("comment", issue.key, "")]
       \o (IF returned < n THEN <<>>
           ELSE <<Ev("print", issue.key, IF cat THEN "verbose" ELSE "summary")>>)

\* A variant of is_valid_user that accepts any record the search returns.
is_valid_user_AnyRecord(name, found) == found # {}

\* for u in search_users(name): if u.name == name: return True
is_valid_user(name, found) == \E u \in found : u = name

\* A variant of ModifySteps that resolves first.
ModifySteps_ResolveFirst == <<"m_resolve", "m_comment", "m_take", "m_give">>

\* The statements of do_modify's loop body after print_issue, in order.
ModifySteps == <<"m_comment", "m_take", "m_give", "m_resolve">>

StepWanted(a, s) ==
    CASE s = "m_comment" -> a.comment # ""
      [] s = "m_take" -> a.take
      [] s = "m_give" -> a.give
      [] OTHER -> a.resolve

RECURSIVE FirstWanted(_, _)
FirstWanted(a, ss) ==
    IF ss = <<>> THEN "m_blank"
    ELSE IF StepWanted(a, Head(ss)) THEN Head(ss)
    ELSE FirstWanted(a, Tail(ss))

\* The statement that runs after statement s of the loop body.
AfterStep(a, s) ==
    IF s = "m_print" THEN FirstWanted(a, ModifySteps)
    ELSE LET n == CHOOSE m \in 1..Len(ModifySteps) : ModifySteps[m] = s
         IN FirstWanted(a, SubSeq(ModifySteps, n + 1, Len(ModifySteps)))

\* issue = conn.issue(tid)
ModifyFetch ==
    /\ pc = "m_fetch"
    /\ log' = Append(log, Ev("issue", args.ticketlist[i], ""))
    /\ \E ok \in BOOLEAN :
         IF ok
           THEN /\ issues' = <<[key |-> args.ticketlist[i],
                                ncomments |-> comments[args.ticketlist[i]]]>>
                /\ pc' = "m_print"
                /\ error' = error
           ELSE /\ issues' = issues
                /\ pc' = "exit"
                /\ error' = JIRAError
    /\ UNCHANGED <<argv, env, stdin, args, cfgoptions, i, keys, comments, lookups>>

\* print_issue(issue)
ModifyPrint ==
    /\ pc = "m_print"
    /\ \E returned \in 0..CommentCalls(issues[1], args.cat) :
         /\ log' = log \o PrintIssueEvents(issues[1], args.cat, returned)
         /\ IF returned = CommentCalls(issues[1], args.cat)
              THEN /\ pc' = AfterStep(args, "m_print")
                   /\ error' = error
              ELSE /\ pc' = "exit"
                   /\ error' = JIRAError
    /\ UNCHANGED <<argv, env, stdin, args, cfgoptions, i, keys, issues, comments, lookups>>

\* add_comment(issue)
AddComment ==
    /\ pc = "m_comment"
    /\ \E ok \in BOOLEAN :
         IF ok
           THEN /\ log' = log \o <<Ev("add_comment", issues[1].key, args.comment),
                                   Ev("print", args.comment, "Added comment")>>
                /\ comments' = [comments EXCEPT ![issues[1].key] = @ + 1]
                /\ pc' = AfterStep(args, "m_comment")
                /\ error' = error
           ELSE /\ log' = Append(log, Ev("add_comment", issues[1].key, args.comment))
                /\ comments' = comments
                /\ pc' = "exit"
                /\ error' = JIRAError
    /\ UNCHANGED <<argv, env, stdin, args, cfgoptions, i, keys, issues, lookups>>

\* assign_issue(issue, new_user), and on to statement next
AssignIssue(new_user, next) ==
    /\ \E ok \in BOOLEAN :
         IF ok
           THEN /\ log' = log \o <<Ev("assign_issue", issues[1].key, new_user),
                                   Ev("print", new_user, "Assigned issue to user")>>
                /\ pc' = next
                /\ error' = error
           ELSE /\ log' = Append(log, Ev("assign_issue", issues[1].key, new_user))
                /\ pc' = "exit"
                /\ error' = JIRAError
    /\ UNCHANGED <<argv, env, stdin, args, cfgoptions, i, keys, issues, comments, lookups>>

\* if args.take: assign_issue(issue, args.jirauser)
TakeIssue ==
    /\ pc = "m_take"
    /\ AssignIssue(args.jirauser, AfterStep(args, "m_take"))

\* if not is_valid_user(args.givetouser): raise SystemExit
GiveCheck ==
    /\ pc = "m_give"
    /\ log' = Append(log, Ev("search_users", "", args.givetouser))
    /\ \E ok \in BOOLEAN, found \in SUBSET UserNames :
         IF ok
           THEN /\ lookups' = Append(lookups, args.givetouser \in found)
                /\ IF is_valid_user(args.givetouser, found)
                     THEN /\ pc' = "m_assign"
                          /\ error' = error
                     ELSE /\ pc' = "exit"
                          /\ error' = InvalidUser
           ELSE /\ lookups' = lookups
                /\ pc' = "exit"
                /\ error' = JIRAError
    /\ UNCHANGED <<argv, env, stdin, args, cfgoptions, i, keys, issues, comments>>

\* assign_issue(issue, args.givetouser)
GiveIssue ==
    /\ pc = "m_assign"
    /\ AssignIssue(args.givetouser, AfterStep(args, "m_give"))

\* resolve_issue(issue)
ResolveIssue ==
    /\ pc = "m_resolve"
    /\ \E ok \in BOOLEAN :
         IF ok
           THEN /\ log' = log \o <<Ev("transition_issue", issues[1].key, "5"),
                                   Ev("print", "", "New state 'resolved'")>>
                /\ pc' = AfterStep(args, "m_resolve")
                /\ error' = error
           ELSE /\ log' = Append(log, Ev("transition_issue", issues[1].key, "5"))
                /\ pc' = "exit"
                /\ error' = JIRAError
    /\ UNCHANGED <<argv, env, stdin, args, cfgoptions, i, keys, issues, comments, lookups>>

\* print(''), and the next tid of the for loop
ModifyNext ==
    /\ pc = "m_blank"
    /\ log' = Append(log, Ev("print", "", ""))
    /\ i' = i + 1
    /\ pc' = IF i < Len(args.ticketlist) THEN "m_fetch" ELSE "done"
    /\ UNCHANGED <<argv, env, stdin, args, cfgoptions, error, keys, issues, comments, lookups>>

----------------------------------------------------------------------------
\* the user search and the listing

\* matches = search_users(args.usersearch); pprint.pprint(matches)
UserSearch ==
    /\ pc = "usersearch"
    /\ \E ok \in BOOLEAN :
         IF ok
           THEN /\ log' = log \o <<Ev("search_users", "", args.usersearch),
                                   Ev("print", "", "pprint")>>
                /\ pc' = "done"
                /\ error' = error
           ELSE /\ log' = Append(log, Ev("search_users", "", args.usersearch))
                /\ pc' = "exit"
                /\ error' = JIRAError
    /\ UNCHANGED <<argv, env, stdin, args, cfgoptions, i, keys, issues, comments, lookups>>

\* A variant of SearchTemplate that tests list instead of list_all.
SearchTemplate_TestsList(a) == IF a.list THEN MineTemplate ELSE AllTemplate

\* The query do_search builds.
SearchTemplate(a) == IF a.list_all THEN AllTemplate ELSE MineTemplate

\* do_search(): conn.search_issues(searchstr)
DoSearch ==
    /\ pc = "search"
    /\ log' = Append(log, Ev("search_issues", args.jiraproject, SearchTemplate(args)))
    /\ \E ok \in BOOLEAN, hits \in HitLists :
         IF ok
           THEN /\ keys' = hits
                /\ pc' = IF hits = <<>> THEN "done" ELSE "l_fetch"
                /\ error' = error
           ELSE /\ keys' = keys
                /\ pc' = "exit"
                /\ error' = JIRAError
    /\ UNCHANGED <<argv, env, stdin, args, cfgoptions, i, issues, comments, lookups>>

\* issues = [ conn.issue(k) for k in ... ]: one element of the comprehension
ListFetch ==
    /\ pc = "l_fetch"
    /\ log' = Append(log, Ev("issue", keys[i], ""))
    /\ \E ok \in BOOLEAN :
         IF ok
           THEN /\ issues' = Append(issues, [key |-> keys[i], ncomments |-> comments[keys[i]]])
                /\ i' = IF i < Len(keys) THEN i + 1 ELSE 1
                /\ pc' = IF i < Len(keys) THEN "l_fetch" ELSE "l_print"
                /\ error' = error
           ELSE /\ issues' = issues
                /\ i' = i
                /\ pc' = "exit"
                /\ error' = JIRAError
    /\ UNCHANGED <<argv, env, stdin, args, cfgoptions, keys, comments, lookups>>

\* for issue in issues: print_issue(issue)
ListPrint ==
    /\ pc = "l_print"
    /\ \E returned \in 0..CommentCalls(issues[i], args.cat) :
         /\ log' = log \o PrintIssueEvents(issues[i], args.cat, returned)
         /\ IF returned = CommentCalls(issues[i], args.cat)
              THEN /\ pc' = IF i < Len(issues) THEN "l_print" ELSE "done"
                   /\ i' = i + 1
                   /\ error' = error
              ELSE /\ pc' = "exit"
                   /\ i' = i
                   /\ error' = JIRAError
    /\ UNCHANGED <<argv, env, stdin, args, cfgoptions, keys, issues, comments, lookups>>

Next ==
    \/ ReadConfigFile
    \/ ResolveOptions
    \/ ValidateArgs
    \/ JiraConnect
    \/ ModifyFetch
    \/ ModifyPrint
    \/ AddComment
    \/ TakeIssue
    \/ GiveCheck
    \/ GiveIssue
    \/ ResolveIssue
    \/ ModifyNext
    \/ UserSearch
    \/ DoSearch
    \/ ListFetch
    \/ ListPrint

Flags ==
    [list : BOOLEAN, list_all : BOOLEAN, cat : BOOLEAN, comment : {"", "fixed"},
     resolve : BOOLEAN, take : BOOLEAN, give : BOOLEAN, givetouser : {"", "bob"},
     usersearch : {"", "bo"}]

ArgsOf(servers, users, projects, passes, tickets, flags) ==
    {[ticketlist |-> t, usersearch |-> f.usersearch,
      jiraserver |-> s, jirauser |-> u, jirapass |-> w, jiraproject |-> p,
      list |-> f.list, list_all |-> f.list_all, cat |-> f.cat,
      comment |-> f.comment, resolve |-> f.resolve, take |-> f.take,
      give |-> f.give, givetouser |-> f.givetouser] :
        s \in servers, u \in users, p \in projects, w \in passes,
        t \in tickets, f \in flags}

ConfigFiles ==
    {[cfgfile |-> "absent", items |-> NoOptions], [cfgfile |-> "nosection", items |-> NoOptions]}
    \cup {[cfgfile |-> "ok", items |-> it] :
            it \in UNION {[S -> CfgValues] :
                            S \in SUBSET {"jiraserver", "jirauser", "jiraproject", "jirapass"}}}

\* A line of stdin that no newline ends is the last one.
StdinTexts(lines, n) ==
    {l \in SeqsUpTo(lines, n) : \A k \in 1..(Len(l) - 1) : l[k] # "X-3"}

EnvOf(files, ttys, typeds, stdins) ==
    {[cfgfile |-> c.cfgfile, items |-> c.items, isatty |-> t, typed |-> w, stdin |-> l] :
        c \in files, t \in ttys, w \in typeds, l \in stdins}

AllIds == TicketIds \cup StdinLines \cup HitKeys

InitWith(argset, envset) ==
    /\ argv \in argset
    /\ args = argv
    /\ env \in envset
    /\ stdin = env.stdin
    /\ cfgoptions = NoOptions
    /\ pc = "read_cfg"
    /\ error = ""
    /\ log = <<>>
    /\ i = 1
    /\ keys = <<>>
    /\ issues = <<>>
    /\ \E c \in (IF argv.cat THEN 0..MaxComments ELSE {0}) :
         comments = [id \in AllIds |-> c]
    /\ lookups = <<>>

NoConfigFile == {c \in ConfigFiles : c.cfgfile = "absent"}

\* Three invocations that between them run every statement of the script:
\* every modification at once, a user search, a plain listing.
Scenarios ==
    {[list |-> FALSE, list_all |-> FALSE, cat |-> TRUE, comment |-> "fixed",
      resolve |-> TRUE, take |-> TRUE, give |-> TRUE, givetouser |-> "bob",
      usersearch |-> ""],
     [list |-> FALSE, list_all |-> FALSE, cat |-> FALSE, comment |-> "",
      resolve |-> FALSE, take |-> FALSE, give |-> FALSE, givetouser |-> "",
      usersearch |-> "bo"],
     [list |-> TRUE, list_all |-> FALSE, cat |-> FALSE, comment |-> "",
      resolve |-> FALSE, take |-> FALSE, give |-> FALSE, givetouser |-> "",
      usersearch |-> ""]}

\* The command lines Y-2 Y-1 Y-1 ... of up to n ticket ids.
PositionalPrefixes(n) ==
    {[j \in 1..k |-> IF j = 1 THEN "Y-2" ELSE "Y-1"] : k \in 0..n}

\* Every combination of the options, with up to MaxPositional ticket ids on
\* the command line and at most one line on stdin; the server comes from the
\* command line or is missing.
Init ==
    InitWith(ArgsOf(CliValues, {"A"}, {"A"}, {"A"},
                    PositionalPrefixes(MaxPositional), Flags),
             EnvOf(NoConfigFile, BOOLEAN, {"pw"}, SeqsUpTo({"X-1\n"}, 1)))

\* Every combination of the connection options on the command line, in the
\* config file and at the prompt, for the three scenarios.
InitConfig ==
    InitWith(ArgsOf(CliValues, CliValues, CliValues, CliValues,
                    SeqsUpTo({"Y-1"}, 1), Scenarios),
             EnvOf(ConfigFiles, BOOLEAN, TypedValues, {<<>>}))

\* Every ticket list on the command line and on stdin, for the three scenarios.
InitCollect ==
    InitWith(ArgsOf({"A"}, {"A"}, {"A"}, {"A"},
                    SeqsUpTo(TicketIds, MaxPositional), Scenarios),
             EnvOf(NoConfigFile, BOOLEAN, {"pw"}, StdinTexts(StdinLines, MaxStdin)))

Spec == Init /\ [][Next]_vars
SpecConfig == InitConfig /\ [][Next]_vars
SpecCollect == InitCollect /\ [][Next]_vars

----------------------------------------------------------------------------
\* The properties checked.

ParsePcs == {"read_cfg", "defaults", "validate"}
ConfigErrors ==
    {NoSectionError, MissingPassword}
    \cup {MissingOption(ConnectionKeys[k]) : k \in 1..Len(ConnectionKeys)}
ParseErrors == ConfigErrors \cup {GiveRequiresTarget, TicketListRequired}

\* The connection settings are resolved: parse_cmdline is past its password step.
SettingsResolved == pc \notin {"read_cfg", "defaults"} /\ error \notin ConfigErrors
\* The checks of parse_cmdline have run (and passed or failed).
Validated == SettingsResolved /\ pc # "validate"
\* parse_cmdline returned.
Returned == pc \notin ParsePcs /\ error \notin ParseErrors

\* One of comment, resolve, take, give is set on the command line.
AnyModification == argv.comment # "" \/ argv.resolve \/ argv.take \/ argv.give

Calls(op) == {k \in 1..Len(log) : log[k].op = op}

IsPrefix(s, t) == Len(s) <= Len(t) /\ s = SubSeq(t, 1, Len(s))

\* The log after the connection, without the conn.comment calls that
\* print_issue makes with --cat and without the empty line that ends a ticket.
RECURSIVE Visible(_)
Visible(l) ==
    IF l = <<>> THEN <<>>
    ELSE IF Head(l).op = "comment" \/ Head(l) = Ev("print", "", "")
         THEN Visible(Tail(l))
         ELSE <<Head(l)>> \o Visible(Tail(l))

Rendered(t) == Ev("print", t, IF argv.cat THEN "verbose" ELSE "summary")

\* C1: once the connection settings are resolved, an invocation with one of
\* comment, resolve, take, give set (give with a non-empty givetouser) whose
\* collected ticket list is empty ends in parse_cmdline with 'Ticket list
\* required', before any call on the tracker.
C1_TicketListRequired ==
    (/\ Validated
     /\ AnyModification
     /\ (argv.give => argv.givetouser # "")
     /\ args.ticketlist = <<>>)
    => (pc = "exit" /\ error = TicketListRequired /\ log = <<>>)

C1_Witness ==
    /\ pc = "exit"
    /\ error = TicketListRequired
    /\ argv.take
    /\ ~argv.give
    /\ ~env.isatty

\* C2: when the checks of parse_cmdline run with give set and givetouser
\* empty, they fail with 'Givetouser is required', whatever the ticket list
\* and the other options; stdin is not read and no call is made.
C2_GiveRequiresTarget ==
    (Validated /\ argv.give /\ argv.givetouser = "")
    => (/\ pc = "exit"
        /\ error = GiveRequiresTarget
        /\ log = <<>>
        /\ stdin = env.stdin)

C2_Witness ==
    /\ pc = "exit"
    /\ error = GiveRequiresTarget
    /\ argv.ticketlist = <<>>
    /\ ~env.isatty
    /\ env.stdin = <<>>
    /\ argv.take
    /\ argv.list

\* C3: with resolve set, no comment text and a non-empty ticket list, the
\* checks of parse_cmdline fail: the run ends there and no call is made.
C3_ResolveRequiresComment ==
    (/\ Validated
     /\ argv.resolve
     /\ argv.comment = ""
     /\ Len(args.ticketlist) >= 1)
    => (pc = "exit" /\ log = <<>>)

\* C4: when parse_cmdline returned and one of comment, resolve, take, give is
\* set, the main block never is in the user search or the listing, makes no
\* search_issues call and prints no user list; its first call after the
\* connection is the fetch of the first ticket.
C4_MutationPrecedence ==
    (Returned /\ AnyModification)
    => (/\ pc \notin {"usersearch", "search", "l_fetch", "l_print"}
        /\ Calls("search_issues") = {}
        /\ \A k \in 1..Len(log) : log[k] # Ev("print", "", "pprint")
        /\ keys = <<>>
        /\ (Len(log) >= 2 => log[2] = Ev("issue", args.ticketlist[1], "")))

C4_Witness ==
    /\ pc = "done"
    /\ argv.comment # ""
    /\ ~argv.resolve /\ ~argv.take /\ ~argv.give
    /\ argv.list /\ argv.list_all /\ argv.cat
    /\ argv.usersearch # ""

\* C5 as stated: a run with give set, a non-empty givetouser, take not set
\* and at least one ticket, in which no lookup returned the exact name, ends
\* with 'Invalid user' and without an assign_issue call (stated here of the
\* runs that got as far as fetching a ticket).
C5_AlwaysInvalidUser ==
    (/\ Returned
     /\ Calls("issue") # {}
     /\ pc \in {"done", "exit"}
     /\ argv.give /\ argv.givetouser # "" /\ ~argv.take
     /\ Len(args.ticketlist) >= 1
     /\ \A k \in 1..Len(lookups) : ~lookups[k])
    => (error = InvalidUser /\ Calls("assign_issue") = {})

\* C5 as amended: with give set, a non-empty givetouser and take not set, no
\* assign_issue call is made as long as no lookup has returned the exact
\* name, and the run ends with 'Invalid user' as soon as a lookup returns
\* without it.
C5_NoAssignWithoutValidUser ==
    (argv.give /\ argv.givetouser # "" /\ ~argv.take)
    => (/\ (\A k \in 1..Len(lookups) : ~lookups[k]) => Calls("assign_issue") = {}
        /\ (lookups # <<>> /\ ~lookups[Len(lookups)])
             => (pc = "exit" /\ error = InvalidUser))

C5_Witness ==
    /\ pc = "exit"
    /\ error = InvalidUser
    /\ argv.comment # ""
    /\ ~argv.take
    /\ Len(args.ticketlist) >= 2
    /\ Calls("add_comment") # {}

\* What do_modify is to do for the tickets ts, as C6 lists it.
RECURSIVE ExpectedModify(_)
ExpectedModify(ts) ==
    IF ts = <<>> THEN <<>>
    ELSE LET t == Head(ts) IN
         <<Ev("issue", t, ""), Rendered(t)>>
         \o (IF argv.comment # ""
               THEN <<Ev("add_comment", t, argv.comment),
                      Ev("print", argv.comment, "Added comment")>>
               ELSE <<>>)
         \o (IF argv.take
               THEN <<Ev("assign_issue", t, args.jirauser),
                      Ev("print", args.jirauser, "Assigned issue to user")>>
               ELSE <<>>)
         \o (IF argv.give
               THEN <<Ev("search_users", "", argv.givetouser),
                      Ev("assign_issue", t, argv.givetouser),
                      Ev("print", argv.givetouser, "Assigned issue to user")>>
               ELSE <<>>)
         \o (IF argv.resolve
               THEN <<Ev("transition_issue", t, "5"),
                      Ev("print", "", "New state 'resolved'")>>
               ELSE <<>>)
         \o ExpectedModify(Tail(ts))

\* C6: in a modify run the calls and the prints are, ticket after ticket in
\* list order: fetch, render, then for each option set, in the order
\* comment, take, give, resolve, the call and right after it its one
\* confirmation line (give: the lookup, the assignment, the confirmation).
\* At any moment what was done is a prefix of that; a run that ends with
\* every call having succeeded did all of it.
C6_ModifyOrder ==
    (Returned /\ AnyModification /\ log # <<>>)
    => (/\ IsPrefix(Visible(Tail(log)), ExpectedModify(args.ticketlist))
        /\ pc = "done" => Visible(Tail(log)) = ExpectedModify(args.ticketlist))

C6_Witness ==
    /\ pc = "done"
    /\ Len(args.ticketlist) >= 2
    /\ args.ticketlist[1] # args.ticketlist[2]
    /\ argv.comment # "" /\ argv.take /\ argv.give /\ argv.resolve
    /\ Len(log) >= 20

\* C7: whenever a call on the tracker has been made (the connection is the
\* first), server, user, password and project are all non-empty.
C7_SettingsNonEmpty ==
    log # <<>>
    => (/\ args.jiraserver # ""
        /\ args.jirauser # ""
        /\ args.jirapass # ""
        /\ args.jiraproject # "")

AllConnectionOptions == {"jiraserver", "jirauser", "jiraproject", "jirapass"}

\* C8: once the settings are resolved, each of server, user, project and
\* password equals its command line value if that is non-empty; it differs
\* from the command line value only if that is empty, and then it is the
\* config file's value (for the password, with no such key in the file, what
\* was typed at the prompt); and resolving the resolved settings again with
\* the same config file gives them back.
C8_MergePriority ==
    SettingsResolved
    => (/\ \A k \in AllConnectionOptions :
             /\ argv[k] # "" => args[k] = argv[k]
             /\ args[k] # argv[k] =>
                  /\ argv[k] = ""
                  /\ IF k \in DOMAIN cfgoptions THEN args[k] = cfgoptions[k]
                     ELSE k = "jirapass" /\ env.isatty /\ args[k] = env.typed
        /\ UseDefaults(args, cfgoptions, ConnectionKeys) = [args |-> args, missing |-> ""]
        /\ GetPassword(args.jirapass, cfgoptions, env.isatty, env.typed)
             = [found |-> TRUE, value |-> args.jirapass])

C8_Witness ==
    /\ pc = "validate"
    /\ argv.jiraserver = "A"
    /\ "jiraserver" \in DOMAIN cfgoptions
    /\ cfgoptions["jiraserver"] = "B"
    /\ args.jiraserver = "A"
    /\ argv.jirauser = ""
    /\ args.jirauser = "B"

RECURSIVE Fetches(_)
Fetches(ts) == IF ts = <<>> THEN <<>> ELSE <<Ev("issue", Head(ts), "")>> \o Fetches(Tail(ts))

RECURSIVE Renders(_)
Renders(ts) == IF ts = <<>> THEN <<>> ELSE <<Rendered(Head(ts))>> \o Renders(Tail(ts))

RECURSIVE SummaryLines(_)
SummaryLines(ts) ==
    IF ts = <<>> THEN <<>>
    ELSE <<Ev("print", Head(ts), "summary")>> \o SummaryLines(Tail(ts))

\* The query C10 expects: 'all' with list_all, else 'mine'.
ExpectedQuery ==
    Ev("search_issues", args.jiraproject,
       IF argv.list_all
         THEN "project={project} and status in (\"open\")"
         ELSE "assignee=currentUser() and project={project} and status in (\"open\",\"in progress\")")

Listing == Returned /\ ~AnyModification /\ argv.usersearch = ""

\* C10 as stated: a finished listing run without ticket ids made one
\* search_issues call with the 'mine' template ('all' with list_all), then
\* fetched every hit and printed one summary line per hit, in hit order; with
\* ticket ids it made no search and fetched and rendered the ids in order.
C10_OneLinePerHit ==
    (Listing /\ pc = "done")
    => IF args.ticketlist = <<>>
         THEN Tail(log) = <<ExpectedQuery>> \o Fetches(keys) \o SummaryLines(keys)
         ELSE Visible(Tail(log)) = Fetches(args.ticketlist) \o Renders(args.ticketlist)

\* C10 as amended: in a listing run without ticket ids the first call after
\* the connection is the one search_issues call, with the 'mine' template
\* ('all' with list_all); the hits are then fetched in hit order and then
\* rendered in hit order, each once: as a summary line, or with cat as the
\* verbose block.  With ticket ids there is no search_issues call and the ids
\* are fetched and rendered the same way.  What was done is at any moment a
\* prefix of that, and all of it when the run ends with no call having failed.
C10_Listing ==
    Listing
    => IF args.ticketlist = <<>>
         THEN /\ Cardinality(Calls("search_issues")) <= 1
              /\ Len(log) >= 2 => log[2] = ExpectedQuery
              /\ Len(log) >= 2 =>
                   IsPrefix(Visible(Tail(Tail(log))), Fetches(keys) \o Renders(keys))
              /\ pc = "done" =>
                   Visible(Tail(Tail(log))) = Fetches(keys) \o Renders(keys)
         ELSE /\ Calls("search_issues") = {}
              /\ log # <<>> =>
                   IsPrefix(Visible(Tail(log)),
                            Fetches(args.ticketlist) \o Renders(args.ticketlist))
              /\ pc = "done" =>
                   Visible(Tail(log)) = Fetches(args.ticketlist) \o Renders(args.ticketlist)

C10_Witness ==
    /\ pc = "done"
    /\ Listing
    /\ args.ticketlist = <<>>
    /\ Len(keys) = 2
    /\ argv.list_all
    /\ argv.cat
    /\ Calls("comment") # {}
====
